---- MODULE Spec2Model ----
(***************************************************************************)
(* A model of the anime recommender: the baseline recommender              *)
(* (baseline_recommender.py), the Gemini re-ranker (utils/reranker.py) and *)
(* the catalog ingestion job (ingest/global_ingest.py).                    *)
(*                                                                         *)
(* Scores are Python floats in the code.  The model computes them exactly, *)
(* as integers counted in millionths (Micro units per 1.0), so 0.1 is      *)
(* Micro \div 10 and rank / 100.0 is rank * (Micro \div 100).  Floating    *)
(* point rounding is not modelled.                                         *)
(***************************************************************************)
EXTENDS Integers, Sequences, FiniteSets, TLC

VARIABLES
    \* baseline_recommender.py
    media,               \* personal store, table media: id -> row
    media_list_entries,  \* personal store, table media_list_entries: rows
    global_media,        \* catalog store, table global_media: id -> row
    op,                  \* the function of baseline_recommender called last
    top_n,               \* its argument top_n
    desired_genre,       \* its argument desired_genre
    raised,              \* TRUE when the call ended with an exception
    preference,          \* the profile get_user_preferences returned
    recommendations,     \* the list recommend_top_media returned
    \* utils/reranker.py
    candidates,          \* the ids of the argument candidates, in order
    reply,               \* what the model call did: "none" before the call
    rerank_raised,       \* TRUE when rerank_candidates_with_gemini raised
    rerank_return,       \* the list it returned
    \* ingest/global_ingest.py
    pc,                  \* where main is: "stopped" when no job runs
    current_page,        \* main's local current_page
    has_next_page,       \* page_info.get('hasNextPage') of the page stored last
    checkpoint,          \* the file checkpoint.txt
    last_page,           \* the number of pages the API serves
    last_stored,         \* the page whose store_global_data completed last, 0: none
    stored_at_start,     \* last_stored when the running job was started
    first_fetch,         \* the first page the running job asked the API for
    failures,            \* consecutive failed fetches of current_page
    interrupts           \* how often a job was interrupted

recVars == <<media, media_list_entries, global_media, op, top_n, desired_genre,
             raised, preference, recommendations>>

rerankVars == <<candidates, reply, rerank_raised, rerank_return>>

ingestVars == <<pc, current_page, has_next_page, checkpoint, last_page,
                last_stored, stored_at_start, first_fetch, failures, interrupts>>

vars == <<recVars, rerankVars, ingestVars>>

-----------------------------------------------------------------------------
(* Bounds of the model *)

MaxHist == 2        \* rows of media_list_entries
MaxTopN == 2        \* largest top_n asked for
MaxCandidates == 2  \* candidates handed to the re-ranker
MaxPage == 5        \* pages the API serves at most
MaxFailures == 3    \* consecutive failed fetches the model follows
MaxInterrupts == 2  \* interruptions of the ingestion job the model follows

MediaIds == {1, 2, 3}

-----------------------------------------------------------------------------
(* Values *)

SeqsUpTo(S, n) == UNION {[1..k -> S] : k \in 0..n}

\* A nullable column or an optional argument: <<>> is NULL / None.
Null == <<>>
Some(v) == <<v>>
IsNull(x) == x = <<>>
Val(x) == x[1]

\* x or 0 (baseline_recommender.py lines 122 and 126): None and 0 give 0
OrZero(x) == IF IsNull(x) THEN 0 ELSE Val(x)

Micro == 1000000

\* str.lower() on the strings the model uses
Lower(s) ==
    CASE s = "Action" -> "action"
      [] s = "ACTION" -> "action"
      [] s = "Drama"  -> "drama"
      [] s = "DRAMA"  -> "drama"
      [] OTHER        -> s

\* A tag of the JSON text: a bare string, or a dict whose keys "name" and
\* "rank" may be missing.
BareTag(n)       == [dict |-> FALSE, has_name |-> TRUE,  name |-> n,
                     has_rank |-> FALSE, rank |-> 0]
DictTag(n, r)    == [dict |-> TRUE,  has_name |-> TRUE,  name |-> n,
                     has_rank |-> TRUE,  rank |-> r]
DictTagNoRank(n) == [dict |-> TRUE,  has_name |-> TRUE,  name |-> n,
                     has_rank |-> FALSE, rank |-> 0]
DictTagNoName(r) == [dict |-> TRUE,  has_name |-> FALSE, name |-> "",
                     has_rank |-> TRUE,  rank |-> r]

\* tag.get("name", "") if isinstance(tag, dict) else tag
TagName(tag) ==
    IF tag.dict THEN (IF tag.has_name THEN tag.name ELSE "") ELSE tag.name

\* tag.get("rank", 1) if isinstance(tag, dict) else 1
TagRank(tag) ==
    IF tag.dict THEN (IF tag.has_rank THEN tag.rank ELSE 1) ELSE 1

\* The text of a genres or tags column: SQL NULL, the empty string, text that
\* is no JSON, or the JSON text of a list.
NullText    == [kind |-> "null",    list |-> <<>>]
EmptyText   == [kind |-> "empty",   list |-> <<>>]
GarbageText == [kind |-> "garbage", list |-> <<>>]

\* json.dumps(list): the JSON text of the list
JsonDumps(l) == [kind |-> "json", list |-> l]

\* json.loads(text): raises on text that is no JSON
JsonLoads(text) ==
    IF text.kind = "json"
    THEN [raised |-> FALSE, value |-> text.list]
    ELSE [raised |-> TRUE,  value |-> <<>>]

\* Python truth of a column value: None and "" are false
Truthy(text) == text.kind \notin {"null", "empty"}

\* try: json.loads(x) if x else [] / except Exception: []
LoadsOrEmpty(text) ==
    IF ~Truthy(text) THEN <<>>
    ELSE IF JsonLoads(text).raised THEN <<>>
    ELSE JsonLoads(text).value

NoRow == [present |-> FALSE]

-----------------------------------------------------------------------------
(* baseline_recommender.py *)

\* preference[key] = preference.get(key, 0) + score
AddWeight(pref, key, score) ==
    IF key \in DOMAIN pref
    THEN [pref EXCEPT ![key] = @ + score]
    ELSE pref @@ (key :> score)

\* for genre in genres: preference[genre] = preference.get(genre, 0) + score
RECURSIVE AddGenres(_, _, _)
AddGenres(pref, genres, score) ==
    IF genres = <<>> THEN pref
    ELSE AddGenres(AddWeight(pref, Head(genres), score), Tail(genres), score)

\* AddTags with the tag weight assigned instead of accumulated
RECURSIVE AddTagsAssign(_, _, _)
AddTagsAssign(pref, tags, score) ==
    IF tags = <<>> THEN pref
    ELSE AddTagsAssign(
            IF TagName(Head(tags)) \in DOMAIN pref
            THEN [pref EXCEPT ![TagName(Head(tags))] = score]
            ELSE pref @@ (TagName(Head(tags)) :> score),
            Tail(tags), score)

\* for tag in tags: preference[tag_name] = preference.get(tag_name, 0) + score
RECURSIVE AddTags(_, _, _)
AddTags(pref, tags, score) ==
    IF tags = <<>> THEN pref
    ELSE AddTags(AddWeight(pref, TagName(Head(tags)), score), Tail(tags), score)

\* The rows of the query of get_user_preferences: media JOIN
\* media_list_entries WHERE status = 'COMPLETED' AND score IS NOT NULL
RECURSIVE PreferenceRows(_, _)
PreferenceRows(entries, mediaTable) ==
    IF entries = <<>> THEN <<>>
    ELSE LET e == Head(entries)
             rest == PreferenceRows(Tail(entries), mediaTable)
         IN IF /\ mediaTable[e.media_id].present
               /\ e.status = "COMPLETED"
               /\ ~IsNull(e.score)
            THEN <<[genres_json |-> mediaTable[e.media_id].genres,
                    tags_json   |-> mediaTable[e.media_id].tags,
                    score       |-> Val(e.score)]>> \o rest
            ELSE rest

\* The loop of get_user_preferences over the rows of the query
RECURSIVE AccumulatePreference(_, _)
AccumulatePreference(pref, results) ==
    IF results = <<>> THEN pref
    ELSE LET r == Head(results)
             genres == LoadsOrEmpty(r.genres_json)
             tags == LoadsOrEmpty(r.tags_json)
         IN AccumulatePreference(
                AddTags(AddGenres(pref, genres, r.score), tags, r.score),
                Tail(results))

get_user_preferences(entries, mediaTable) ==
    AccumulatePreference(<<>>, PreferenceRows(entries, mediaTable))

\* The ids of a table in the order a scan of the table returns them: id is
\* the INTEGER PRIMARY KEY, so ascending.
RECURSIVE RowidOrder(_)
RowidOrder(ids) ==
    IF ids = {} THEN <<>>
    ELSE LET least == CHOOSE i \in ids : \A j \in ids : i <= j
         IN <<least>> \o RowidOrder(ids \ {least})

\* json.loads(row[k]) if row[k] else [] : no try around it
LoadsOrRaise(text) ==
    IF ~Truthy(text) THEN [raised |-> FALSE, value |-> <<>>]
    ELSE JsonLoads(text)

\* get_global_media: the query names id, the titles, genres and tags; the
\* dict of a media item has no key average_score and no key popularity.
\* The three titles take no part in the ranking and are left out.
RECURSIVE GlobalMediaList(_, _)
GlobalMediaList(ids, catalog) ==
    IF ids = <<>> THEN [raised |-> FALSE, value |-> <<>>]
    ELSE LET row == catalog[Head(ids)]
             g == LoadsOrRaise(row.genres)
             t == LoadsOrRaise(row.tags)
             rest == GlobalMediaList(Tail(ids), catalog)
         IN IF g.raised \/ t.raised \/ rest.raised
            THEN [raised |-> TRUE, value |-> <<>>]
            ELSE [raised |-> FALSE,
                  value |-> <<[id |-> Head(ids), genres |-> g.value,
                               tags |-> t.value]>> \o rest.value]

get_global_media(catalog) ==
    GlobalMediaList(RowidOrder({i \in DOMAIN catalog : catalog[i].present}),
                    catalog)

\* SELECT DISTINCT media_id FROM media_list_entries WHERE status = 'PLANNING'
get_user_planned_media_ids(entries) ==
    {entries[i].media_id : i \in {j \in DOMAIN entries : entries[j].status = "PLANNING"}}

\* The watched ids with the planned ids taken out
get_user_watched_media_ids_not_planned(entries) ==
    {entries[i].media_id : i \in {j \in DOMAIN entries : entries[j].status /= "PLANNING"}}
    \ {entries[i].media_id : i \in {j \in DOMAIN entries : entries[j].status = "PLANNING"}}

\* SELECT DISTINCT media_id FROM media_list_entries WHERE status != 'PLANNING'
get_user_watched_media_ids(entries) ==
    {entries[i].media_id : i \in {j \in DOMAIN entries : entries[j].status /= "PLANNING"}}

\* media.get(key): None when the dict has no such key
MediaGet(m, key) ==
    IF key \in DOMAIN m THEN m[key] ELSE Null

\* for genre in media["genres"]: if genre in preference: score += preference[genre]
RECURSIVE GenreScore(_, _)
GenreScore(genres, pref) ==
    IF genres = <<>> THEN 0
    ELSE (IF Head(genres) \in DOMAIN pref THEN pref[Head(genres)] * Micro ELSE 0)
         + GenreScore(Tail(genres), pref)

\* for tag in media["tags"]: score += preference[tag_name] * (tag_rank / 100.0)
RECURSIVE TagScore(_, _)
TagScore(tags, pref) ==
    IF tags = <<>> THEN 0
    ELSE (IF TagName(Head(tags)) \in DOMAIN pref
          THEN pref[TagName(Head(tags))] * TagRank(Head(tags)) * (Micro \div 100)
          ELSE 0)
         + TagScore(Tail(tags), pref)

\* compute_similarity, in Micro units
compute_similarity(m, pref) ==
    LET average_score == OrZero(MediaGet(m, "average_score"))
        popularity == OrZero(MediaGet(m, "popularity"))
    IN GenreScore(m.genres, pref)
       + TagScore(m.tags, pref)
       + average_score * (Micro \div 10)
       + popularity * (Micro \div 1000000)

\* if desired_genre: (None and "" are false)
DesiredGiven(desired) == ~IsNull(desired) /\ Val(desired) /= ""

GenresLower(m) == {Lower(m.genres[i]) : i \in DOMAIN m.genres}
TagsLower(m) == {Lower(TagName(m.tags[i])) : i \in DOMAIN m.tags}

\* lines 149-154: the item is skipped when desired_genre is given and is
\* neither one of its genres nor one of its tag names
PassesGenreFilter(m, desired) ==
    DesiredGiven(desired) =>
        \/ Lower(Val(desired)) \in GenresLower(m)
        \/ Lower(Val(desired)) \in TagsLower(m)

\* The boosts with "if" in place of "elif": both may apply
GenreBoostBoth(sim, m, desired) ==
    LET afterGenre ==
            IF DesiredGiven(desired) /\ Lower(Val(desired)) \in GenresLower(m)
            THEN (sim * 12) \div 10 ELSE sim
    IN IF DesiredGiven(desired) /\ Lower(Val(desired)) \in TagsLower(m)
       THEN (afterGenre * 11) \div 10 ELSE afterGenre

\* lines 159-165: sim *= 1.2 / elif: sim *= 1.1
GenreBoost(sim, m, desired) ==
    IF ~DesiredGiven(desired) THEN sim
    ELSE IF Lower(Val(desired)) \in GenresLower(m) THEN (sim * 12) \div 10
    ELSE IF Lower(Val(desired)) \in TagsLower(m) THEN (sim * 11) \div 10
    ELSE sim

\* lines 168-169: sim *= 1.5
PlannedBoost(sim, m, planned_ids) ==
    IF m.id \in planned_ids THEN (sim * 15) \div 10 ELSE sim

\* The loop of recommend_top_media over global_media (lines 144-171)
RECURSIVE ScoreLoop(_, _, _, _, _)
ScoreLoop(medias, pref, planned_ids, watched_ids, desired) ==
    IF medias = <<>> THEN <<>>
    ELSE LET m == Head(medias)
             rest == ScoreLoop(Tail(medias), pref, planned_ids, watched_ids, desired)
         IN IF m.id \in watched_ids THEN rest
            ELSE IF ~PassesGenreFilter(m, desired) THEN rest
            ELSE <<[media |-> m,
                    sim |-> PlannedBoost(
                              GenreBoost(compute_similarity(m, pref), m, desired),
                              m, planned_ids)]>> \o rest

\* A descending sort that puts an element before its equals
RECURSIVE InsertDescBeforeEquals(_, _)
InsertDescBeforeEquals(sorted, x) ==
    IF sorted = <<>> THEN <<x>>
    ELSE IF Head(sorted).sim > x.sim
         THEN <<Head(sorted)>> \o InsertDescBeforeEquals(Tail(sorted), x)
         ELSE <<x>> \o sorted

\* list.sort(key=lambda x: x[1], reverse=True): a stable sort; with
\* reverse=True elements with equal keys still keep their original order.
RECURSIVE InsertDesc(_, _)
InsertDesc(sorted, x) ==
    IF sorted = <<>> THEN <<x>>
    ELSE IF Head(sorted).sim >= x.sim
         THEN <<Head(sorted)>> \o InsertDesc(Tail(sorted), x)
         ELSE <<x>> \o sorted

RECURSIVE SortDesc(_, _)
SortDesc(done, todo) ==
    IF todo = <<>> THEN done
    ELSE SortDesc(InsertDesc(done, Head(todo)), Tail(todo))

\* recommendations[:top_n] for top_n > 0
Slice(s, n) ==
    SubSeq(s, 1, IF n < Len(s) THEN n ELSE Len(s))

recommend_top_media(n, desired, entries, mediaTable, catalog) ==
    LET pref == get_user_preferences(entries, mediaTable)
        gm == get_global_media(catalog)
        planned_ids == get_user_planned_media_ids(entries)
        watched_ids == get_user_watched_media_ids(entries)
    IN IF gm.raised THEN [raised |-> TRUE, value |-> <<>>]
       ELSE [raised |-> FALSE,
             value |-> Slice(SortDesc(<<>>, ScoreLoop(gm.value, pref, planned_ids,
                                                      watched_ids, desired)), n)]

-----------------------------------------------------------------------------
(* utils/reranker.py *)

\* What model.generate_content and response.text give
CallFails     == [kind |-> "call_fails",     ids |-> <<>>]  \* the call raises
NotJson       == [kind |-> "not_json",       ids |-> <<>>]  \* text that is no JSON
JsonArray     == [kind |-> "json_array",     ids |-> <<>>]  \* JSON, but a list
JsonNoKey     == [kind |-> "json_no_key",    ids |-> <<>>]  \* an object without 'candidate_ids'
JsonBadId     == [kind |-> "json_bad_id",    ids |-> <<>>]  \* an id int() rejects
JsonIds(l)    == [kind |-> "json_ids",       ids |-> l]     \* {"candidate_ids": l}

\* rerank_candidates_with_gemini(query, candidates) given what the model
\* call does.  generate_content (line 42) and response.text (line 47) are
\* outside the try; the try covers json.loads, parsed.get and int(cid).
rerank_candidates_with_gemini(cands, r) ==
    IF r.kind = "call_fails"
    THEN [raised |-> TRUE, value |-> <<>>]
    ELSE IF r.kind \in {"not_json", "json_array", "json_bad_id"}
    THEN [raised |-> FALSE, value |-> cands]     \* except: [c["id"] for c in candidates]
    ELSE IF r.kind = "json_no_key"
    THEN [raised |-> FALSE, value |-> <<>>]      \* parsed.get("candidate_ids", [])
    ELSE [raised |-> FALSE, value |-> r.ids]

RerankIdle ==
    /\ candidates = <<>>
    /\ reply = [kind |-> "none", ids |-> <<>>]
    /\ rerank_raised = FALSE
    /\ rerank_return = <<>>

Replies ==
    {CallFails, NotJson, JsonArray, JsonNoKey, JsonBadId}
    \cup {JsonIds(l) : l \in SeqsUpTo(MediaIds, MaxCandidates)}

\* A call of rerank_candidates_with_gemini on the candidates
Rerank ==
    \E r \in Replies :
        /\ reply.kind = "none"
        /\ reply' = r
        /\ rerank_raised' = rerank_candidates_with_gemini(candidates, r).raised
        /\ rerank_return' = rerank_candidates_with_gemini(candidates, r).value
        /\ UNCHANGED <<candidates, recVars, ingestVars>>

-----------------------------------------------------------------------------
(* ingest/global_ingest.py *)

\* The file checkpoint.txt: absent, empty (opened with "w", nothing written
\* yet), or holding str(page)
AbsentFile  == [kind |-> "absent", page |-> 0]
EmptyFile   == [kind |-> "empty",  page |-> 0]
PageFile(p) == [kind |-> "page",   page |-> p]

\* read_checkpoint: 1 when the file is absent, 1 on ValueError (int("")),
\* else the page written
read_checkpoint(file) ==
    IF file.kind = "absent" THEN 1
    ELSE IF file.kind = "empty" THEN 1
    ELSE file.page

Running == pc \notin {"stopped", "done"}

IngestIdle ==
    /\ pc = "stopped"
    /\ current_page = 0
    /\ has_next_page = FALSE
    /\ checkpoint = AbsentFile
    /\ last_page = 1
    /\ last_stored = 0
    /\ stored_at_start = 0
    /\ first_fetch = Null
    /\ failures = 0
    /\ interrupts = 0

\* main, lines 162-165: current_page = read_checkpoint()
Start ==
    /\ pc = "stopped"
    /\ pc' = "fetch"
    /\ current_page' = read_checkpoint(checkpoint)
    /\ stored_at_start' = last_stored
    /\ first_fetch' = Null
    /\ failures' = 0
    /\ has_next_page' = FALSE
    /\ UNCHANGED <<checkpoint, last_page, last_stored, interrupts, recVars, rerankVars>>

\* A failed fetch after which the job goes on to the next page
FetchFailsSkipsPage ==
    /\ pc = "fetch"
    /\ failures < MaxFailures
    /\ failures' = failures + 1
    /\ current_page' = current_page + 1
    /\ first_fetch' = IF IsNull(first_fetch) THEN Some(current_page) ELSE first_fetch
    /\ UNCHANGED <<pc, has_next_page, checkpoint, last_page,
                   last_stored, stored_at_start, interrupts, recVars, rerankVars>>

\* fetch_global_data raises (lines 88-89 or requests.post): the except of
\* main (lines 188-191) prints, sleeps 60 seconds and the loop goes round
FetchFails ==
    /\ pc = "fetch"
    /\ failures < MaxFailures
    /\ failures' = failures + 1
    /\ first_fetch' = IF IsNull(first_fetch) THEN Some(current_page) ELSE first_fetch
    /\ UNCHANGED <<pc, current_page, has_next_page, checkpoint, last_page,
                   last_stored, stored_at_start, interrupts, recVars, rerankVars>>

\* fetch_global_data returns the page (line 170)
FetchSucceeds ==
    /\ pc = "fetch"
    /\ pc' = "store"
    /\ failures' = 0
    /\ first_fetch' = IF IsNull(first_fetch) THEN Some(current_page) ELSE first_fetch
    /\ UNCHANGED <<current_page, has_next_page, checkpoint, last_page,
                   last_stored, stored_at_start, interrupts, recVars, rerankVars>>

\* store_global_data commits the page and returns its pageInfo (line 171)
StoreGlobalData ==
    /\ pc = "store"
    /\ pc' = "open_checkpoint"
    /\ last_stored' = current_page
    /\ has_next_page' = (current_page < last_page)
    /\ UNCHANGED <<current_page, checkpoint, last_page, stored_at_start,
                   first_fetch, failures, interrupts, recVars, rerankVars>>

\* write_checkpoint, line 158: open(CHECKPOINT_FILE, "w") empties the file
OpenCheckpoint ==
    /\ pc = "open_checkpoint"
    /\ pc' = "write_checkpoint"
    /\ checkpoint' = EmptyFile
    /\ UNCHANGED <<current_page, has_next_page, last_page, last_stored,
                   stored_at_start, first_fetch, failures, interrupts,
                   recVars, rerankVars>>

\* write_checkpoint, line 159: f.write(str(page)) and the close of the file
WriteCheckpoint ==
    /\ pc = "write_checkpoint"
    /\ pc' = "advance"
    /\ checkpoint' = PageFile(current_page)
    /\ UNCHANGED <<current_page, has_next_page, last_page, last_stored,
                   stored_at_start, first_fetch, failures, interrupts,
                   recVars, rerankVars>>

\* The end of the loop without the os.remove of the checkpoint
AdvanceKeepsCheckpoint ==
    /\ pc = "advance"
    /\ IF has_next_page
       THEN /\ current_page' = current_page + 1
            /\ pc' = "fetch"
       ELSE /\ pc' = "done"
            /\ UNCHANGED current_page
    /\ UNCHANGED <<checkpoint, has_next_page, last_page, last_stored, stored_at_start,
                   first_fetch, failures, interrupts, recVars, rerankVars>>

\* lines 177-186: the next page, or the checkpoint removed and the loop left
Advance ==
    /\ pc = "advance"
    /\ IF has_next_page
       THEN /\ current_page' = current_page + 1
            /\ pc' = "fetch"
            /\ UNCHANGED checkpoint
       ELSE /\ checkpoint' = AbsentFile
            /\ pc' = "done"
            /\ UNCHANGED current_page
    /\ UNCHANGED <<has_next_page, last_page, last_stored, stored_at_start,
                   first_fetch, failures, interrupts, recVars, rerankVars>>

\* The job is interrupted (killed, or KeyboardInterrupt, which the
\* except Exception of main does not catch): the process and its locals
\* are gone, the file and the database stay
Interrupt ==
    /\ Running
    /\ interrupts < MaxInterrupts
    /\ interrupts' = interrupts + 1
    /\ pc' = "stopped"
    /\ current_page' = 0
    /\ has_next_page' = FALSE
    /\ failures' = 0
    /\ first_fetch' = Null
    /\ stored_at_start' = 0
    /\ UNCHANGED <<checkpoint, last_page, last_stored, recVars, rerankVars>>

-----------------------------------------------------------------------------
(* The stores and the arguments the model runs the recommender on *)

MediaRow(g, t) == [present |-> TRUE, genres |-> g, tags |-> t]

GlobalRow(g, t, a, p) ==
    [present |-> TRUE, genres |-> g, tags |-> t,
     average_score |-> a, popularity |-> p]

Entry(id, st, sc) == [media_id |-> id, status |-> st, score |-> sc]

\* Rows of the personal table media.  "Action" is a genre and a tag name;
\* a genre may occur twice; a tag dict may lack its name; text may be
\* NULL or no JSON.
PersonalRows ==
    { NoRow,
      MediaRow(JsonDumps(<<"Action">>), JsonDumps(<<DictTag("Drama", 50)>>)),
      MediaRow(JsonDumps(<<"Action", "Action">>),
               JsonDumps(<<BareTag("Action"), DictTagNoName(30)>>)),
      MediaRow(GarbageText, JsonDumps(<<BareTag("Drama")>>)),
      MediaRow(NullText, GarbageText) }

\* Rows of global_media as store_global_data writes them: genres and tags
\* are json.dumps text.
GlobalRows ==
    { NoRow,
      GlobalRow(JsonDumps(<<"Action">>), JsonDumps(<<>>), Some(80), Some(500000)),
      GlobalRow(JsonDumps(<<"action", "Drama">>),
                JsonDumps(<<DictTag("Action", 50)>>), Null, Null),
      GlobalRow(JsonDumps(<<>>),
                JsonDumps(<<BareTag("Drama"), DictTagNoRank("Action")>>),
                Some(80), Null) }

\* Rows of global_media whose text is not what json.dumps writes
MalformedGlobalRows ==
    { GlobalRow(GarbageText, JsonDumps(<<>>), Null, Null),
      GlobalRow(JsonDumps(<<"Action">>), GarbageText, Some(80), Null),
      GlobalRow(NullText, EmptyText, Null, Null) }

DesiredGenres == {Null, Some(""), Some("ACTION"), Some("drama")}

\* The personal table media of the recommender runs
RecMedia ==
    [i \in MediaIds |->
        CASE i = 1 -> MediaRow(JsonDumps(<<"Action">>), JsonDumps(<<DictTag("Drama", 50)>>))
          [] i = 2 -> MediaRow(JsonDumps(<<"Drama">>), JsonDumps(<<BareTag("Action")>>))
          [] OTHER -> MediaRow(GarbageText, JsonDumps(<<BareTag("Drama")>>))]

RecEntries ==
    {Entry(i, "COMPLETED", Some(8)) : i \in MediaIds}
    \cup {Entry(i, "PLANNING", Null) : i \in MediaIds}
    \cup {Entry(i, "DROPPED", Null) : i \in MediaIds}

NoCall ==
    /\ op = "none"
    /\ top_n = 0
    /\ desired_genre = Null
    /\ raised = FALSE
    /\ preference = <<>>
    /\ recommendations = <<>>
    /\ RerankIdle
    /\ IngestIdle

Init ==
    /\ media = RecMedia
    /\ media_list_entries \in SeqsUpTo(RecEntries, MaxHist)
    /\ global_media \in [MediaIds -> GlobalRows]
    /\ NoCall

\* A run makes one call on the stores it finds (main of
\* baseline_recommender.py calls recommend_top_media once): op = "none"
\* until the call is made.

\* A call of get_user_preferences on the stores
GetUserPreferences ==
    /\ op = "none"
    /\ op' = "get_user_preferences"
    /\ preference' = get_user_preferences(media_list_entries, media)
    /\ raised' = FALSE
    /\ top_n' = 0
    /\ desired_genre' = Null
    /\ recommendations' = <<>>
    /\ UNCHANGED <<media, media_list_entries, global_media, rerankVars, ingestVars>>

\* A call of recommend_top_media(top_n, desired_genre) on the stores
RecommendTopMedia ==
    \E n \in 1..MaxTopN, desired \in DesiredGenres :
        LET r == recommend_top_media(n, desired, media_list_entries, media,
                                     global_media)
        IN /\ op = "none"
           /\ op' = "recommend_top_media"
           /\ top_n' = n
           /\ desired_genre' = desired
           /\ raised' = r.raised
           /\ recommendations' = r.value
           /\ preference' = get_user_preferences(media_list_entries, media)
           /\ UNCHANGED <<media, media_list_entries, global_media, rerankVars, ingestVars>>

Next ==
    \/ GetUserPreferences
    \/ RecommendTopMedia

Spec == Init /\ [][Next]_vars

-----------------------------------------------------------------------------
(* Claims about recommend_top_media *)

Returned == op = "recommend_top_media" /\ ~raised

\* The history holds a row of this id with this property of its status
HasPlanningRow(id) ==
    \E j \in DOMAIN media_list_entries :
        /\ media_list_entries[j].media_id = id
        /\ media_list_entries[j].status = "PLANNING"

HasOtherRow(id) ==
    \E j \in DOMAIN media_list_entries :
        /\ media_list_entries[j].media_id = id
        /\ media_list_entries[j].status /= "PLANNING"

ReturnedIds == {recommendations[i].media.id : i \in DOMAIN recommendations}

\* The catalog item of an id as the recommender sees it
CatalogItem(id) ==
    [id |-> id,
     genres |-> LoadsOrEmpty(global_media[id].genres),
     tags |-> LoadsOrEmpty(global_media[id].tags)]

MatchesGenre(m, desired) ==
    \E i \in DOMAIN m.genres : Lower(m.genres[i]) = Lower(Val(desired))

MatchesTag(m, desired) ==
    \E i \in DOMAIN m.tags : Lower(TagName(m.tags[i])) = Lower(Val(desired))

\* C1: no item recommend_top_media returns has an id for which the history
\* holds a row with a status other than PLANNING, also when the same id has
\* a PLANNING row too.
C1_WatchedNeverReturned ==
    Returned => \A id \in ReturnedIds : ~HasOtherRow(id)

\* C1 witness: an item that alone passes every other test (it is in the
\* catalog and no genre is asked for) has a PLANNING row and another row,
\* and the call returned other items but not this one.
C1_Witness ==
    /\ Returned
    /\ ~DesiredGiven(desired_genre)
    /\ recommendations /= <<>>
    /\ Len(recommendations) < top_n
    /\ \E id \in MediaIds :
        /\ global_media[id].present
        /\ HasPlanningRow(id)
        /\ HasOtherRow(id)
        /\ id \notin ReturnedIds

\* C2: with no desired_genre, an item whose id is not planned is returned
\* with the sum of its genre weights, its rank-scaled tag weights, 0.1 times
\* the average_score stored in the catalog and the stored popularity divided
\* by 1,000,000 (NULL counting as 0).
C2_ScoreUsesStoredQuality ==
    (Returned /\ ~DesiredGiven(desired_genre)) =>
        \A i \in DOMAIN recommendations :
            LET m == recommendations[i].media
                row == global_media[m.id]
            IN ~HasPlanningRow(m.id) =>
                recommendations[i].sim =
                    GenreScore(m.genres, preference)
                    + TagScore(m.tags, preference)
                    + OrZero(row.average_score) * (Micro \div 10)
                    + OrZero(row.popularity) * (Micro \div 1000000)

\* The genre factor of C3, in tenths: the set of factors the claim allows
C3_GenreFactors(m, desired) ==
    IF ~DesiredGiven(desired) THEN {10}
    ELSE IF MatchesGenre(m, desired) THEN {12}
    ELSE IF MatchesTag(m, desired) THEN {11}
    ELSE {}

C3_PlannedFactor(m) == IF HasPlanningRow(m.id) THEN 15 ELSE 10

\* C3: the score of every returned item is compute_similarity times one genre
\* factor (1.2 for a genre match, also when a tag matches too; 1.1 for a tag
\* match only; 1 with no desired_genre) times one planned factor (1.5 when
\* the id is planned, else 1); 1.2 and 1.1 are never both applied.
C3_OneGenreFactorOnePlannedFactor ==
    Returned =>
        \A i \in DOMAIN recommendations :
            LET m == recommendations[i].media
                S0 == compute_similarity(m, preference)
            IN \E gf \in C3_GenreFactors(m, desired_genre) :
                \E a \in {(S0 * gf) \div 10} :
                    /\ a * 10 = S0 * gf
                    /\ recommendations[i].sim * 10 = a * C3_PlannedFactor(m)

\* C3 witness: a returned item with a positive score is planned and matches
\* desired_genre both by a genre and by a tag name.
C3_Witness ==
    /\ Returned
    /\ DesiredGiven(desired_genre)
    /\ \E i \in DOMAIN recommendations :
        LET m == recommendations[i].media
        IN /\ MatchesGenre(m, desired_genre)
           /\ MatchesTag(m, desired_genre)
           /\ HasPlanningRow(m.id)
           /\ compute_similarity(m, preference) > 0
           /\ recommendations[i].sim > compute_similarity(m, preference)

\* The candidates of C4: the catalog ids that survive the watched filter and
\* the desired_genre filter.
C4_Candidates ==
    {id \in MediaIds :
        /\ global_media[id].present
        /\ ~HasOtherRow(id)
        /\ (DesiredGiven(desired_genre) =>
                \/ MatchesGenre(CatalogItem(id), desired_genre)
                \/ MatchesTag(CatalogItem(id), desired_genre))}

C4_FinalScore(id) ==
    PlannedBoost(
        GenreBoost(compute_similarity(CatalogItem(id), preference),
                   CatalogItem(id), desired_genre),
        CatalogItem(id), {i \in MediaIds : HasPlanningRow(i)})

\* a comes before b in the descending order that keeps the catalog order
\* (ascending id) among equal scores
C4_Before(a, b) ==
    \/ C4_FinalScore(a) > C4_FinalScore(b)
    \/ (C4_FinalScore(a) = C4_FinalScore(b) /\ a < b)

\* C4: with k candidates, recommend_top_media returns min(top_n, k) pairs,
\* the first min(top_n, k) of the candidates in descending score order where
\* equal scores keep the catalog order.
C4_TopNStable ==
    Returned =>
        LET k == Cardinality(C4_Candidates)
        IN /\ Len(recommendations) = (IF top_n < k THEN top_n ELSE k)
           /\ \A i \in DOMAIN recommendations :
                /\ recommendations[i].media.id \in C4_Candidates
                /\ recommendations[i].media = CatalogItem(recommendations[i].media.id)
                /\ recommendations[i].sim = C4_FinalScore(recommendations[i].media.id)
           /\ \A i, j \in DOMAIN recommendations :
                i < j => C4_Before(recommendations[i].media.id,
                                   recommendations[j].media.id)
           /\ \A id \in C4_Candidates \ ReturnedIds :
                \A i \in DOMAIN recommendations :
                    C4_Before(recommendations[i].media.id, id)

\* C4 witness: more candidates than top_n, and a candidate left out has the
\* positive score of the last item returned.
C4_Witness ==
    /\ Returned
    /\ Cardinality(C4_Candidates) > top_n
    /\ Len(recommendations) = top_n
    /\ \E id \in C4_Candidates \ ReturnedIds :
        /\ C4_FinalScore(id) > 0
        /\ C4_FinalScore(id) = recommendations[Len(recommendations)].sim

-----------------------------------------------------------------------------
(* get_user_preferences on a wider personal store *)

PrefsIds == {1, 2}

PrefsEntries ==
    {Entry(i, "COMPLETED", Some(7)) : i \in PrefsIds}
    \cup {Entry(i, "COMPLETED", Some(9)) : i \in PrefsIds}
    \cup {Entry(i, "COMPLETED", Null) : i \in PrefsIds}
    \cup {Entry(i, "PLANNING", Some(7)) : i \in PrefsIds}
    \cup {Entry(i, "DROPPED", Some(9)) : i \in PrefsIds}

InitPrefs ==
    /\ media \in {t \in [MediaIds -> PersonalRows] :
                    \A i \in MediaIds \ PrefsIds : t[i] = NoRow}
    /\ media_list_entries \in SeqsUpTo(PrefsEntries, MaxHist)
    /\ global_media = [i \in MediaIds |-> NoRow]
    /\ NoCall

NextPrefs == GetUserPreferences

SpecPrefs == InitPrefs /\ [][NextPrefs]_vars

Terms == {"Action", "Drama", "action", ""}

\* The entry takes part in the profile: COMPLETED, scored, and its media
\* row exists
C5_Counts(j) ==
    /\ media_list_entries[j].status = "COMPLETED"
    /\ ~IsNull(media_list_entries[j].score)
    /\ media[media_list_entries[j].media_id].present

\* How often the term occurs among the genres and the tag names of the
\* media of entry j
C5_Occurrences(t, j) ==
    LET row == media[media_list_entries[j].media_id]
        genres == LoadsOrEmpty(row.genres)
        tags == LoadsOrEmpty(row.tags)
    IN Cardinality({i \in DOMAIN genres : genres[i] = t})
       + Cardinality({i \in DOMAIN tags : TagName(tags[i]) = t})

RECURSIVE C5_Weight(_, _)
C5_Weight(t, j) ==
    IF j = 0 THEN 0
    ELSE (IF C5_Counts(j)
          THEN Val(media_list_entries[j].score) * C5_Occurrences(t, j)
          ELSE 0)
         + C5_Weight(t, j - 1)

C5_Keys ==
    {t \in Terms : \E j \in DOMAIN media_list_entries :
                        C5_Counts(j) /\ C5_Occurrences(t, j) > 0}

\* C5: the profile maps each term to the sum, over the COMPLETED entries
\* with a score, of the score once per occurrence of the term among the
\* genres and the tag names of the entry's media; other entries add
\* nothing, and a term with no occurrence is no key.
C5_ProfileIsSumOfScores ==
    op = "get_user_preferences" =>
        /\ DOMAIN preference = C5_Keys
        /\ \A t \in C5_Keys :
              preference[t] = C5_Weight(t, Len(media_list_entries))

\* C5 witness: two counted entries with different scores add to one term
\* that one of them has as a genre and as a tag name, next to an entry that
\* is not counted.
C5_Witness ==
    /\ op = "get_user_preferences"
    /\ \E j, k \in DOMAIN media_list_entries, t \in DOMAIN preference :
        /\ j /= k
        /\ C5_Counts(j) /\ C5_Counts(k)
        /\ media_list_entries[j].score /= media_list_entries[k].score
        /\ C5_Occurrences(t, j) >= 3
        /\ C5_Occurrences(t, k) >= 1
        /\ preference[t] > Val(media_list_entries[j].score)
                           + Val(media_list_entries[k].score)

-----------------------------------------------------------------------------
(* The recommender on a catalog whose text json.loads rejects *)

InitMalformed ==
    /\ media = RecMedia
    /\ media_list_entries \in SeqsUpTo(RecEntries, MaxHist)
    /\ global_media \in [MediaIds -> MalformedGlobalRows \cup
                            {NoRow, GlobalRow(JsonDumps(<<"Action">>), JsonDumps(<<>>),
                                              Some(80), Some(500000))}]
    /\ NoCall

SpecMalformed == InitMalformed /\ [][Next]_vars

\* The stores with every text json.loads rejects replaced by an empty list
EmptyIfUnparseable(text) ==
    IF text.kind = "garbage" THEN JsonDumps(<<>>) ELSE text

C6_Repaired(table) ==
    [i \in DOMAIN table |->
        IF table[i].present
        THEN [table[i] EXCEPT !.genres = EmptyIfUnparseable(@),
                              !.tags = EmptyIfUnparseable(@)]
        ELSE table[i]]

\* C6: a record whose genres or tags text cannot be parsed, in the personal
\* store or in the catalog store, is processed as if the field were an empty
\* list, and recommend_top_media returns without raising.
C6_UnparseableIsEmptyList ==
    op = "recommend_top_media" =>
        /\ ~raised
        /\ preference = get_user_preferences(media_list_entries, C6_Repaired(media))
        /\ recommendations =
              recommend_top_media(top_n, desired_genre, media_list_entries,
                                  C6_Repaired(media), C6_Repaired(global_media)).value

-----------------------------------------------------------------------------
(* The re-ranker *)

RecIdle ==
    /\ media = [i \in MediaIds |-> NoRow]
    /\ media_list_entries = <<>>
    /\ global_media = [i \in MediaIds |-> NoRow]
    /\ op = "none"
    /\ top_n = 0
    /\ desired_genre = Null
    /\ raised = FALSE
    /\ preference = <<>>
    /\ recommendations = <<>>

InitRerank ==
    /\ RecIdle
    /\ IngestIdle
    /\ candidates \in SeqsUpTo(MediaIds, MaxCandidates)
    /\ reply = [kind |-> "none", ids |-> <<>>]
    /\ rerank_raised = FALSE
    /\ rerank_return = <<>>

NextRerank == Rerank

SpecRerank == InitRerank /\ [][NextRerank]_vars

\* C7: whether the model call fails, replies with text that is no JSON, or
\* replies with JSON that lacks 'candidate_ids', the function returns
\* without raising the candidates' ids in their input order.
C7_FallbackOnEveryFailure ==
    reply.kind \in {"call_fails", "not_json", "json_no_key"} =>
        /\ ~rerank_raised
        /\ rerank_return = candidates

-----------------------------------------------------------------------------
(* The ingestion job *)

InitIngest ==
    /\ RecIdle
    /\ RerankIdle
    /\ pc = "stopped"
    /\ current_page = 0
    /\ has_next_page = FALSE
    /\ checkpoint = AbsentFile
    /\ last_page \in 1..MaxPage
    /\ last_stored = 0
    /\ stored_at_start = 0
    /\ first_fetch = Null
    /\ failures = 0
    /\ interrupts = 0

\* The steps of one job
NextRun ==
    \/ Start
    \/ FetchFails
    \/ FetchSucceeds
    \/ StoreGlobalData
    \/ OpenCheckpoint
    \/ WriteCheckpoint
    \/ Advance

NextIngest ==
    \/ NextRun
    \/ Interrupt

SpecIngest == InitIngest /\ [][NextIngest]_vars

\* A job that is not interrupted, and whose fetch of a page succeeds in the
\* end: every step other than the failing fetch is taken when it stays
\* possible.
SpecIngestFair ==
    /\ InitIngest
    /\ [][NextRun]_vars
    /\ WF_vars(Start)
    /\ WF_vars(FetchSucceeds)
    /\ WF_vars(StoreGlobalData)
    /\ WF_vars(OpenCheckpoint)
    /\ WF_vars(WriteCheckpoint)
    /\ WF_vars(Advance)

\* C8: a job started again after an interruption that came after at least
\* one page was stored fetches first the page whose store_global_data
\* completed last.
C8_ResumesAtLastStoredPage ==
    (Running /\ interrupts > 0 /\ stored_at_start > 0 /\ ~IsNull(first_fetch)) =>
        Val(first_fetch) = stored_at_start

\* C9: a failed fetch of page p leaves the job in the loop about to fetch p
\* again and leaves the checkpoint file as it was, however many fetches of p
\* failed before.
C9_FailureRetriesSamePage ==
    [][failures' = failures + 1 =>
          /\ pc = "fetch" /\ pc' = "fetch"
          /\ current_page' = current_page
          /\ checkpoint' = checkpoint
          /\ last_stored' = last_stored]_vars

\* C9 witness: the most consecutive failures the model follows, on a page
\* after the first, with a checkpoint on file.
C9_Witness ==
    /\ pc = "fetch"
    /\ failures = MaxFailures
    /\ current_page > 1
    /\ checkpoint = PageFile(current_page - 1)

\* C10: a job whose fetches succeed in the end terminates; it is terminated
\* only after storing a page that reports no next page, and then the
\* checkpoint file does not exist.
C10_TerminatesWithoutCheckpoint ==
    /\ <>(pc = "done")
    /\ [](pc = "done" =>
            /\ checkpoint = AbsentFile
            /\ last_stored = current_page
            /\ last_stored >= last_page
            /\ ~has_next_page)

\* C10 witness: a job is done after more than one page.
C10_Witness ==
    /\ pc = "done"
    /\ last_stored > 1
    /\ checkpoint = AbsentFile

====
